---- MODULE Spec2Model ----
(***************************************************************************)
(* Model of the Oddsfun betting backend: the markets/bets store (db.js),   *)
(* the bet lifecycle handlers (routes/bets.js), the chain adapter's        *)
(* verification (solana.js) and the admin seed endpoint (server.js).       *)
(*                                                                         *)
(* Node runs each handler to its next `await` without interleaving, so an  *)
(* action is one such run.  /confirm awaits the RPC lookup of the          *)
(* transaction, hence three steps: ConfirmStart (checks and load),         *)
(* GetParsedTransaction (the node's answer, or its failure) and            *)
(* ConfirmFinish (compare and write).  /initiate awaits the chain adapter  *)
(* between its INSERT and its response, hence Initiate and InitiateFinish; *)
(* /evm-receipt awaits import('ethers') between its asserts and the rest,  *)
(* hence EvmReceiptStart and EvmReceiptFinish.  Requests suspended at an   *)
(* await are kept in bags: two identical requests are two handlers.        *)
(*                                                                         *)
(* Five specifications share the actions: Spec (the bet lifecycle under    *)
(* well-formed requests), SpecInputs (/initiate requests over their input  *)
(* set, the admin seed and the listing), SpecReceiptInputs (/evm-receipt   *)
(* requests over their input set), SpecConfirmInputs (malformed /confirm   *)
(* requests) and SpecVerify (every shape of transaction).                  *)
(***************************************************************************)
EXTENDS Integers, Sequences, FiniteSets, Bags, TLC

\* ---------------------------------------------------------------- bounds
MaxBets == 2          \* bet rows stored or about to be inserted
MaxConfirms == 2      \* requests suspended at an await at once
Sub == 10             \* resolution of supplied amounts: units per lamport

\* ------------------------------------------------------ program constants
CatalogueSize == 20                 \* rows of `data` in seedIfEmpty
LAMPORTS_PER_SOL == 1000000000
\* Amounts (JS numbers, in SOL) are counted in units of 1/Sub lamport, finer
\* than the 9 decimals of a lamport, so that rounding to 9 decimals is observable.
MinAmount == (LAMPORTS_PER_SOL \div 100) * Sub      \* 0.01 SOL

\* ---------------------------------------------------------- value domains
NoTx == "NULL"                      \* SQL NULL in the tx column
NoProof == <<>>                     \* SQL NULL in the proof column
NoReason == <<>>

Treasury == "TREASURY"              \* a well-formed treasury address
TreasuryValues == {"", Treasury}                 \* unset, set
TreasuryInputs == TreasuryValues \cup {"not-a-key"}   \* and one PublicKey rejects

SolWallets == {"W1", "W2"}               \* base-58 strings of 32 bytes
NoKeyWallet == "W3"                      \* 44 base-58 characters, not 32 bytes
WalletInputs == {"", "W1", "W2", "bad!", "0xa1", "0xA1"}
InitiateWallets == {"", "W1", NoKeyWallet, "bad!", "0xa1"}
ConfirmWallets == {"", "W2", "0xA1"}
ListWallets == {"W1", "W2", "bad!", "0xa1", "0xA1"}     \* the :wallet path segment

\* EVM addresses as supplied (either casing) and personal_sign signatures
AddressInputs == {"", "0xa1", "0xA1", "0xB2"}
MessageInputs == {"", "m1", "m2"}
Signed(signer, msg) == [present |-> TRUE, wellFormed |-> TRUE, signer |-> signer, msg |-> msg]
SignatureInputs ==
    { [present |-> FALSE, wellFormed |-> FALSE, signer |-> "", msg |-> ""],
      [present |-> TRUE, wellFormed |-> FALSE, signer |-> "", msg |-> ""],
      Signed("0xa1", "m1"), Signed("0xb2", "m1") }

NumericId == 0 - 1                      \* a market id sent as a JSON number
MarketIdInputs == {0, NumericId, 1, CatalogueSize + 1}  \* absent, number, seeded, unknown
SideInputs == {"", "YES", "NO", "MAYBE"}

Sigs == {"s1", "s2"}
SigInputs == {""} \cup Sigs
Landing == {"s1"}                   \* s2 names no transaction the node knows

\* JS values supplied as an amount.  A number is its decimal value v, in units
\* of 1/Sub lamport, and `below`: for a decimal on an exact half lamport,
\* whether the floating-point product n * 1e9 falls just under the half, as it
\* does for some such decimals (0.0156568065 * 1e9 = 15656806.499999998) and
\* not for others (0.0100000005 * 1e9 = 10000000.5).
Num(n) == [kind |-> "num", v |-> n, below |-> FALSE]
NumBelow(n) == [kind |-> "num", v |-> n, below |-> TRUE]
HalfBelow == 15656806 * Sub + (Sub \div 2)     \* 0.0156568065
HalfExact == MinAmount + (Sub \div 2)          \* 0.0100000005
NotNum(kind) == [kind |-> kind, v |-> 0, below |-> FALSE]
Absent == NotNum("absent")          \* undefined: falsy, Number gives NaN
Text == NotNum("text")              \* "abc": truthy, Number gives NaN
ZeroText == NotNum("zerotext")      \* "0", " ", []: truthy, Number gives 0
AmountInputs ==
    { Absent, Text, ZeroText,
      Num(0), Num(0 - MinAmount), Num(4), Num(MinAmount \div 2), Num(MinAmount - 4),
      Num(MinAmount - (Sub \div 2)), Num(MinAmount), Num(MinAmount + 4),
      NumBelow(HalfBelow) }
EvmAmountInputs ==
    { Absent, Text, ZeroText,
      Num(0), Num(0 - MinAmount), Num(MinAmount), NumBelow(HalfBelow) }

\* milliseconds of Date.now() between one INSERT into bets and the next
Elapsed == {0, 1}

\* the amount a W1 bet of MinAmount expects on chain
OneBetLamports == MinAmount \div Sub

\* Request bodies.  The lifecycle specification draws the well-formed
\* requests; the input specifications draw, for each field, every value of its
\* input set in an otherwise well-formed request.
GoodInitiate ==
    [marketId |-> 1, side |-> "YES", amountSol |-> Num(MinAmount), wallet |-> "W1",
     elapsed |-> 1]
InitiateInputs ==
    {[GoodInitiate EXCEPT !.elapsed = d] : d \in Elapsed}
    \cup {[GoodInitiate EXCEPT !.marketId = m] : m \in MarketIdInputs}
    \cup {[GoodInitiate EXCEPT !.side = x] : x \in SideInputs}
    \cup {[GoodInitiate EXCEPT !.amountSol = a] : a \in AmountInputs}
    \cup {[GoodInitiate EXCEPT !.wallet = w] : w \in InitiateWallets}

GoodReceipt ==
    [marketId |-> 1, side |-> "YES", amount |-> Num(MinAmount), address |-> "0xa1",
     message |-> "m1", signature |-> Signed("0xa1", "m1")]
\* the receipts sent next to the initiate requests: a seeded and an unknown
\* market
ReceiptMarkets == {[GoodReceipt EXCEPT !.marketId = m] : m \in {1, CatalogueSize + 1}}
EvmInputs ==
    {[GoodReceipt EXCEPT !.marketId = m] : m \in MarketIdInputs}
    \cup {[GoodReceipt EXCEPT !.side = x] : x \in SideInputs}
    \cup {[GoodReceipt EXCEPT !.amount = a] : a \in EvmAmountInputs}
    \cup {[GoodReceipt EXCEPT !.address = x] : x \in AddressInputs}
    \cup {[GoodReceipt EXCEPT !.message = x] : x \in MessageInputs}
    \cup {[GoodReceipt EXCEPT !.signature = x] : x \in SignatureInputs}

\* ------------------------------------------------------------ chain data
Transfer(src, dst, lam) ==
    [program |-> "system", type |-> "transfer",
     source |-> src, destination |-> dst, lamports |-> lam]
Memo == [program |-> "spl-memo", type |-> "memo",
         source |-> "", destination |-> "", lamports |-> 0]

\* what getParsedTransaction resolves to: null, or the parsed transaction
NotFound == [found |-> FALSE, instructions |-> <<>>]
Parsed(instrs) == [found |-> TRUE, instructions |-> instrs]

\* the transaction a signature names once it is on chain: W1 pays one bet
OnChain(sig) == <<Memo, Transfer("W1", Treasury, OneBetLamports)>>

\* an SPL token transfer: type transfer, but not of the system program
TokenTransfer == [program |-> "spl-token", type |-> "transfer",
                  source |-> "W1", destination |-> Treasury, lamports |-> OneBetLamports]

\* answers of getParsedTransaction for the verification specification: none,
\* no instruction, no system transfer, the exact transfer, one field off, and
\* two transfers of which only one is the exact one
TxShapes ==
    { NotFound, Parsed(<<>>), Parsed(<<Memo>>), Parsed(<<TokenTransfer>>),
      Parsed(<<Memo, Transfer("W1", Treasury, OneBetLamports)>>),
      Parsed(<<Transfer("W2", Treasury, OneBetLamports)>>),
      Parsed(<<Transfer("W1", "OTHER", OneBetLamports)>>),
      Parsed(<<Transfer("W1", Treasury, OneBetLamports + 1)>>),
      Parsed(<<Transfer("W1", Treasury, OneBetLamports - 1)>>),
      Parsed(<<Transfer("W2", "OTHER", OneBetLamports + 1),
               Transfer("W1", Treasury, OneBetLamports)>>),
      Parsed(<<Transfer("W1", Treasury, OneBetLamports),
               Transfer("W2", "OTHER", OneBetLamports + 1)>>) }

VARIABLES
    markets,    \* set of market ids in the markets table
    bets,       \* the bets table: sequence of rows, a bet's id is its index
    treasury,   \* process.env.TREASURY_PUBKEY
    chain,      \* what the RPC node knows of each transaction signature
    booted,     \* the boot-time seedIfEmpty() has run and the server listens
    reqs,       \* bag of the /confirm requests awaiting verifySolTransfer
    inits,      \* ids of the bets whose /initiate awaits buildSolTransferTx
    receipts,   \* bag of the /evm-receipt bodies awaiting import('ethers')
    resp        \* the response of the request handled by the last step

vars == <<markets, bets, treasury, chain, booted, reqs, inits, receipts, resp>>

\* ------------------------------------------------------- validate helpers
\* Number(x): the value of a number, 0 for the values that convert to it
\* ("0", blank text, an empty array), NaN for other text and undefined
ToNumber(x) ==
    IF x.kind \in {"num", "zerotext"} THEN [nan |-> FALSE, v |-> x.v, below |-> x.below]
                                      ELSE [nan |-> TRUE, v |-> 0, below |-> FALSE]

\* JS truthiness of a supplied amount: text and arrays are truthy whatever
\* they convert to, a number unless it is 0
Truthy(x) == x.kind \in {"text", "zerotext"} \/ (x.kind = "num" /\ x.v # 0)

\* n / Sub lamports is an exact half lamport
OnHalf(n) == (2 * n) % (2 * Sub) = Sub

\* Math.round(n * 1e9) of the double n: the nearest integer, a half upward
\* unless the product fell below it
MathRound(n, below) ==
    IF OnHalf(n) /\ below THEN n \div Sub ELSE (2 * n + Sub) \div (2 * Sub)

NullAmount == [null |-> TRUE, v |-> 0]

\* parseAmountSol: null unless finite and positive, else rounded to 9 decimals
parseAmountSol(x) ==
    LET n == ToNumber(x)
    IN  IF n.nan \/ n.v <= 0 THEN NullAmount
        ELSE [null |-> FALSE, v |-> MathRound(n.v, n.below) * Sub]

\* /^([1-9A-HJ-NP-Za-km-z]{32,44})$/.test(wallet): the shape of each string
\* of WalletInputs ("W1", "W2" stand for 44-character base-58 strings)
WalletShape(w) ==
    CASE w \in SolWallets \cup {NoKeyWallet} -> [base58 |-> TRUE, len |-> 44]
      [] w = "bad!"       -> [base58 |-> FALSE, len |-> 4]
      [] w = ""           -> [base58 |-> TRUE, len |-> 0]
      [] OTHER            -> [base58 |-> FALSE, len |-> 42]   \* 0x... holds a 0
\* mutant: the pattern without its length bounds
IsSolanaWalletAnyLength(w) == WalletShape(w).base58

IsSolanaWallet(w) ==
    WalletShape(w).base58 /\ WalletShape(w).len >= 32 /\ WalletShape(w).len <= 44

\* typeof marketId === 'string'
IsString(marketId) == marketId # NumericId

\* ------------------------------------------------------------------ db.js
MarketCatalogue == 1..CatalogueSize

getMarket(id) == id \in markets

\* insertMany(data): one row per catalogue entry, each under a fresh id
insertMany(ms) == ms \cup ((Cardinality(ms) + 1)..(Cardinality(ms) + CatalogueSize))

\* mutant: the seed without its emptiness guard
seedAlways(ms) == insertMany(ms)

\* seedIfEmpty: nothing when a market row exists, else the whole catalogue
\* in one transaction
seedIfEmpty(ms) == IF Cardinality(ms) > 0 THEN ms ELSE insertMany(ms)

\* mutant: the INSERT constraints with foreign keys not enforced
InsertErrorNoForeignKey(ms, market_id, side, amount) ==
    IF amount.nan THEN "NOT NULL constraint failed: bets.amount_sol"
    ELSE IF side \notin {"YES", "NO"} THEN "CHECK constraint failed: side IN ('YES','NO')"
    ELSE ""

\* the constraints of CREATE TABLE bets on an INSERT: "" when the row is
\* accepted, else the SqliteError (NaN binds as NULL; the driver's SQLite
\* enforces foreign keys, at the end of the statement)
InsertError(ms, market_id, side, amount) ==
    IF amount.nan THEN "NOT NULL constraint failed: bets.amount_sol"
    ELSE IF side \notin {"YES", "NO"} THEN "CHECK constraint failed: side IN ('YES','NO')"
    ELSE IF market_id \notin ms THEN "FOREIGN KEY constraint failed"
    ELSE ""

\* a row of bets; the REAL amount_sol is the pair of its decimal value and
\* `below` (see Num), FALSE for a whole number of lamports
BetRow(market_id, side, amount_sol, below, wallet, chainTag, status) ==
    [market_id |-> market_id, side |-> side,
     amount_sol |-> amount_sol, amount_below |-> below,
     wallet |-> wallet, chain |-> chainTag, status |-> status,
     created_at |-> 0, tx |-> NoTx, proof |-> NoProof]

\* Date.now() at an INSERT, counted from the first row's
Now(bs, elapsed) == IF bs = <<>> THEN 0 ELSE bs[Len(bs)].created_at + elapsed

\* createBet: a fresh id (the next index) and one appended row stamped with
\* Date.now()
createBet(bs, row, now) == Append(bs, [row EXCEPT !.created_at = now])

\* mutant: an UPDATE that does not store the proof
markBetConfirmedNoProof(bs, id, tx, proof) ==
    IF id \in DOMAIN bs
    THEN [bs EXCEPT ![id] = [@ EXCEPT !.status = "CONFIRMED", !.tx = tx]]
    ELSE bs

\* mutant: an UPDATE that stores tx and proof but leaves the status column
markBetConfirmedKeepsStatus(bs, id, tx, proof) ==
    IF id \in DOMAIN bs
    THEN [bs EXCEPT ![id] = [@ EXCEPT !.tx = tx, !.proof = proof]]
    ELSE bs

\* markBetConfirmed: UPDATE ... WHERE id=?   (no row, no change)
markBetConfirmed(bs, id, tx, proof) ==
    IF id \in DOMAIN bs
    THEN [bs EXCEPT ![id] = [@ EXCEPT !.status = "CONFIRMED", !.tx = tx, !.proof = proof]]
    ELSE bs

\* mutant: the UPDATE without its WHERE clause
markBetFailedAll(bs, id, tx, reason) ==
    [b \in DOMAIN bs |-> [bs[b] EXCEPT !.status = "FAILED", !.tx = tx]]

\* mutant: a failed verification reopens the bet for another attempt
markBetFailedReopens(bs, id, tx, reason) ==
    IF id \in DOMAIN bs
    THEN [bs EXCEPT ![id] = [@ EXCEPT !.status = "PENDING", !.tx = tx]]
    ELSE bs

\* mutant: the conditional update, WHERE id=? AND status='PENDING'
markBetFailedIfPending(bs, id, tx, reason) ==
    IF id \in DOMAIN bs /\ bs[id].status = "PENDING"
    THEN [bs EXCEPT ![id] = [@ EXCEPT !.status = "FAILED", !.tx = tx]]
    ELSE bs

\* markBetFailed: the reason is not stored
markBetFailed(bs, id, tx, reason) ==
    IF id \in DOMAIN bs
    THEN [bs EXCEPT ![id] = [@ EXCEPT !.status = "FAILED", !.tx = tx]]
    ELSE bs

\* the ids of the rows SELECT ... WHERE wallet=? matches
Matching(bs, wallet) == {b \in DOMAIN bs : bs[b].wallet = wallet}

\* mutant: the query with ORDER BY created_at ASC
listBetsForWalletAscending(bs, wallet) ==
    LET m == Matching(bs, wallet)
    IN  { q \in [1..Cardinality(m) -> m] :
            /\ \A i, j \in DOMAIN q : i # j => q[i] # q[j]
            /\ \A i, j \in DOMAIN q : i < j => bs[q[i]].created_at <= bs[q[j]].created_at }

\* listBetsForWallet: the matching rows ORDER BY created_at DESC, as the
\* sequence of their ids; rows of one created_at come in an order SQL leaves
\* open, so this is the set of the sequences the query may return
listBetsForWallet(bs, wallet) ==
    LET m == Matching(bs, wallet)
    IN  { q \in [1..Cardinality(m) -> m] :
            /\ \A i, j \in DOMAIN q : i # j => q[i] # q[j]
            /\ \A i, j \in DOMAIN q : i < j => bs[q[i]].created_at >= bs[q[j]].created_at }

\* -------------------------------------------------------------- solana.js
IsTransfer(ix) == ix.program = "system" /\ ix.type = "transfer"

\* instructions.find(...): the index of the first system transfer, 0 if none
FirstTransfer(instrs) ==
    IF \E k \in DOMAIN instrs : IsTransfer(instrs[k])
    THEN CHOOSE k \in DOMAIN instrs :
            /\ IsTransfer(instrs[k])
            /\ \A j \in DOMAIN instrs : IsTransfer(instrs[j]) => k <= j
    ELSE 0

Verdict(ok, reason) == [ok |-> ok, reason |-> reason]

\* mutant: a transfer of at least the expected amount is accepted
verifySolTransferAtLeast(parsed, fromPubkey, toPubkey, expectedLamports) ==
    IF ~parsed.found THEN Verdict(FALSE, <<"TX_NOT_FOUND">>)
    ELSE IF FirstTransfer(parsed.instructions) = 0
        THEN Verdict(FALSE, <<"NO_TRANSFER_IN_TX">>)
    ELSE LET info == parsed.instructions[FirstTransfer(parsed.instructions)]
             ok == /\ info.source = fromPubkey
                   /\ info.destination = toPubkey
                   /\ info.lamports >= expectedLamports
         IN  IF ok THEN Verdict(TRUE, NoReason)
             ELSE Verdict(FALSE, <<"MISMATCH", info.source, info.destination, info.lamports>>)

\* verifySolTransfer on the transaction the RPC node returned
verifySolTransfer(parsed, fromPubkey, toPubkey, expectedLamports) ==
    IF ~parsed.found THEN Verdict(FALSE, <<"TX_NOT_FOUND">>)
    ELSE IF FirstTransfer(parsed.instructions) = 0
        THEN Verdict(FALSE, <<"NO_TRANSFER_IN_TX">>)
    ELSE LET info == parsed.instructions[FirstTransfer(parsed.instructions)]
             ok == /\ info.source = fromPubkey
                   /\ info.destination = toPubkey
                   /\ info.lamports = expectedLamports
         IN  IF ok THEN Verdict(TRUE, NoReason)
             ELSE Verdict(FALSE, <<"MISMATCH", info.source, info.destination, info.lamports>>)

\* new PublicKey(k) accepts the value
IsPublicKey(k) == k \in {Treasury} \cup SolWallets

\* ------------------------------------------------------------ ethers
ToLowerCase(a) ==
    CASE a = "0xA1" -> "0xa1" [] a = "0xB2" -> "0xb2" [] a = "0xC3" -> "0xc3" [] OTHER -> a
\* getAddress: the checksum casing of an address
getAddress(a) ==
    CASE ToLowerCase(a) = "0xa1" -> "0xA1" [] ToLowerCase(a) = "0xb2" -> "0xB2"
      [] ToLowerCase(a) = "0xc3" -> "0xC3" [] OTHER -> a
\* verifyMessage: the signer when the message is the signed one, otherwise
\* the unrelated address that recovery yields
verifyMessage(message, signature) ==
    IF signature.msg = message THEN signature.signer ELSE "0xc3"

\* ---------------------------------------------------------------- responses
NoResp == [op |-> "none", code |-> 0, error |-> "", reason |-> NoReason,
           betId |-> 0, proof |-> NoProof, items |-> <<>>]
Fail(op, code, error) == [NoResp EXCEPT !.op = op, !.code = code, !.error = error]
Ok(op, betId) == [NoResp EXCEPT !.op = op, !.code = 200, !.betId = betId]

\* `bet:${betId}:sig:${txSignature}`
Proof(betId, txSignature) == <<"bet", betId, "sig", txSignature>>

\* ------------------------------------------------------------------- Init
\* the input specifications also start with a treasury value that is no key
InitInputs ==
    /\ markets \in {{}, MarketCatalogue}
    /\ bets = <<>>
    /\ treasury \in TreasuryInputs
    /\ chain = [s \in Sigs |-> NotFound]
    /\ booted = FALSE
    /\ reqs = EmptyBag
    /\ inits = {}
    /\ receipts = EmptyBag
    /\ resp = NoResp

\* the verification specification starts from a running server that holds one
\* bet, a PENDING one made by initiate or a receipt of an amount on a half
\* lamport, with any answer of the node for s1
InitVerify ==
    /\ markets = MarketCatalogue
    /\ \/ \E w \in SolWallets, a \in {MinAmount, MinAmount + Sub} :
            bets = createBet(<<>>, BetRow(1, "YES", a, FALSE, w, "solana", "PENDING"), 0)
       \/ \E a \in {Num(HalfExact), NumBelow(HalfBelow)} :
            bets = createBet(<<>>, BetRow(1, "YES", a.v, a.below,
                                          "0xa1", "evm", "RECEIPT_ONLY"), 0)
    /\ treasury \in TreasuryInputs
    /\ \E tx \in TxShapes : chain = [s \in Sigs |-> IF s = "s1" THEN tx ELSE NotFound]
    /\ booted = TRUE
    /\ reqs = EmptyBag
    /\ inits = {}
    /\ receipts = EmptyBag
    /\ resp = NoResp

\* the confirm-input specification starts with the transaction of s1 on
\* chain
InitConfirmInputs ==
    /\ markets \in {{}, MarketCatalogue}
    /\ bets = <<>>
    /\ treasury \in TreasuryValues
    /\ chain = [s \in Sigs |-> IF s \in Landing THEN Parsed(OnChain(s)) ELSE NotFound]
    /\ booted = FALSE
    /\ reqs = EmptyBag
    /\ inits = {}
    /\ receipts = EmptyBag
    /\ resp = NoResp

Init ==
    /\ markets \in {{}, MarketCatalogue}      \* a fresh or an already seeded odds.db
    /\ bets = <<>>
    /\ treasury \in TreasuryValues
    /\ chain = [s \in Sigs |-> NotFound]
    /\ booted = FALSE
    /\ reqs = EmptyBag
    /\ inits = {}
    /\ receipts = EmptyBag
    /\ resp = NoResp

\* server.js boot: seedIfEmpty() and then listen
Boot ==
    /\ ~booted
    /\ markets' = seedIfEmpty(markets)
    /\ booted' = TRUE
    /\ UNCHANGED <<bets, treasury, chain, reqs, resp, inits, receipts>>

\* POST /admin/seed
AdminSeed(authorized) ==
    /\ booted
    /\ IF authorized
       THEN /\ markets' = seedIfEmpty(markets)
            /\ resp' = Ok("seed", 0)
       ELSE /\ markets' = markets
            /\ resp' = Fail("seed", 401, "unauthorized")
    /\ UNCHANGED <<bets, treasury, chain, booted, reqs, inits, receipts>>

\* a transaction becomes visible to the RPC node at commitment `confirmed`
TxLands(sig) ==
    /\ booted
    /\ chain[sig] = NotFound
    /\ chain' = [chain EXCEPT ![sig] = Parsed(OnChain(sig))]
    /\ resp' = NoResp
    /\ UNCHANGED <<markets, bets, treasury, booted, reqs, inits, receipts>>

\* GET /by/:wallet
ListBets(wallet) ==
    /\ booted
    /\ \E items \in listBetsForWallet(bets, wallet) :
            resp' = [Ok("list", 0) EXCEPT !.items = items]
    /\ UNCHANGED <<markets, bets, treasury, chain, booted, reqs, inits, receipts>>

\* the requests suspended at an await
InFlight(rs, is, es) == BagCardinality(rs) + Cardinality(is) + BagCardinality(es)

\* ------------------------------------------------------- POST /initiate
\* mutant: the treasury value checked before the INSERT
initiateChecksFirst(body) ==
    LET marketId == body.marketId
        side == body.side
        wallet == body.wallet
        amt == parseAmountSol(body.amountSol)
        row == BetRow(marketId, side, amt.v, FALSE, wallet, "solana", "PENDING")
        created == createBet(bets, row, Now(bets, body.elapsed))
        refused(code, error) ==
            [bets |-> bets, resp |-> Fail("initiate", code, error), awaiting |-> FALSE]
    IN  IF ~(marketId # 0 /\ IsString(marketId))
          THEN refused(400, "marketId is required")
        ELSE IF ~(side = "YES" \/ side = "NO")
          THEN refused(400, "side must be YES or NO")
        ELSE IF ~(~amt.null /\ amt.v # 0 /\ amt.v >= MinAmount)
          THEN refused(400, "Minimum amount is 0.01 SOL")
        ELSE IF ~getMarket(marketId)
          THEN refused(400, "Unknown market")
        ELSE IF ~IsSolanaWallet(wallet)
          THEN refused(400, "Invalid Solana wallet")
        ELSE IF InsertError(markets, marketId, side, [nan |-> FALSE, v |-> amt.v]) # ""
          THEN refused(500, InsertError(markets, marketId, side, [nan |-> FALSE, v |-> amt.v]))
        ELSE IF treasury = ""
          THEN [bets |-> bets, resp |-> Fail("initiate", 500, "TREASURY_PUBKEY not set"),
                awaiting |-> FALSE]
        ELSE IF ~IsPublicKey(treasury)
          THEN [bets |-> bets, resp |-> Fail("initiate", 500, "Invalid public key input"),
                awaiting |-> FALSE]
        ELSE [bets |-> created, resp |-> NoResp, awaiting |-> TRUE]

\* The handler up to its await of buildSolTransferTx (conn.getLatestBlockhash):
\* the input checks, the INSERT and the treasury checks.  It answers here when
\* one of them fails and is left awaiting the chain adapter otherwise.
initiate(body) ==
    LET marketId == body.marketId
        side == body.side
        wallet == body.wallet
        amt == parseAmountSol(body.amountSol)
        row == BetRow(marketId, side, amt.v, FALSE, wallet, "solana", "PENDING")
        created == createBet(bets, row, Now(bets, body.elapsed))
        refused(code, error) ==
            [bets |-> bets, resp |-> Fail("initiate", code, error), awaiting |-> FALSE]
    IN  IF ~(marketId # 0 /\ IsString(marketId))
          THEN refused(400, "marketId is required")
        ELSE IF ~(side = "YES" \/ side = "NO")
          THEN refused(400, "side must be YES or NO")
        ELSE IF ~(~amt.null /\ amt.v # 0 /\ amt.v >= MinAmount)
          THEN refused(400, "Minimum amount is 0.01 SOL")
        ELSE IF ~getMarket(marketId)
          THEN refused(400, "Unknown market")
        ELSE IF ~IsSolanaWallet(wallet)
          THEN refused(400, "Invalid Solana wallet")
        ELSE IF InsertError(markets, marketId, side, [nan |-> FALSE, v |-> amt.v]) # ""
          THEN refused(500, InsertError(markets, marketId, side, [nan |-> FALSE, v |-> amt.v]))
        ELSE IF treasury = ""
          THEN [bets |-> created, resp |-> Fail("initiate", 500, "TREASURY_PUBKEY not set"),
                awaiting |-> FALSE]
        ELSE IF ~IsPublicKey(treasury)
          THEN [bets |-> created, resp |-> Fail("initiate", 500, "Invalid public key input"),
                awaiting |-> FALSE]
        ELSE [bets |-> created, resp |-> NoResp, awaiting |-> TRUE]

Initiate(body) ==
    LET out == initiate(body)
    IN  /\ booted
        /\ Len(out.bets) + BagCardinality(receipts) <= MaxBets
        /\ bets' = out.bets
        /\ resp' = out.resp
        /\ inits' = IF out.awaiting THEN inits \cup {Len(out.bets)} ELSE inits
        /\ InFlight(reqs, inits', receipts) <= MaxConfirms
        /\ UNCHANGED <<markets, treasury, chain, booted, reqs, receipts>>

\* after the await: the RPC call threw, or new PublicKey(fromPubkey) throws,
\* or the response carries the bet id and the transaction
initiateFinish(betId, rpcOk) ==
    IF ~rpcOk THEN Fail("initiate", 500, "rpc failure")
    ELSE IF ~IsPublicKey(bets[betId].wallet)
      THEN Fail("initiate", 500, "Invalid public key input")
    ELSE Ok("initiate", betId)

InitiateFinish(betId, rpcOk) ==
    /\ betId \in inits
    /\ resp' = initiateFinish(betId, rpcOk)
    /\ inits' = inits \ {betId}
    /\ UNCHANGED <<markets, bets, treasury, chain, booted, reqs, receipts>>

\* ---------------------------------------------------- POST /evm-receipt
\* the two asserts on the body, before the handler awaits import('ethers')
evmReceiptChecks(body) ==
    IF ~(body.marketId # 0 /\ body.side # "" /\ Truthy(body.amount) /\ body.address # ""
            /\ body.message # "" /\ body.signature.present)
      THEN Fail("evm-receipt", 400, "Missing fields")
    ELSE IF ~(body.side = "YES" \/ body.side = "NO")
      THEN Fail("evm-receipt", 400, "Invalid side")
    ELSE NoResp

\* The handler up to its await: it answers when an assert fails and is left
\* suspended otherwise.  A receipt that may insert is admitted while the table
\* has room for it.
EvmReceiptStart(body) ==
    LET r == evmReceiptChecks(body)
    IN  /\ booted
        /\ resp' = r
        /\ receipts' = IF r = NoResp THEN receipts (+) SetToBag({body}) ELSE receipts
        /\ Len(bets) + BagCardinality(receipts') <= MaxBets
        /\ InFlight(reqs, inits, receipts') <= MaxConfirms
        /\ UNCHANGED <<markets, bets, treasury, chain, booted, reqs, inits>>

\* mutant: the receipt recorded without comparing the recovered address
evmReceiptUnverified(body, elapsed) ==
    LET n == ToNumber(body.amount)
        row == BetRow(body.marketId, body.side, n.v, n.below, body.address,
                      "evm", "RECEIPT_ONLY")
        created == createBet(bets, row, Now(bets, elapsed))
    IN  IF ~body.signature.wellFormed
          THEN [bets |-> bets, resp |-> Fail("evm-receipt", 500, "invalid signature encoding")]
        ELSE IF InsertError(markets, body.marketId, body.side, n) # ""
          THEN [bets |-> bets,
                resp |-> Fail("evm-receipt", 500,
                              InsertError(markets, body.marketId, body.side, n))]
        ELSE [bets |-> created, resp |-> Ok("evm-receipt", Len(created))]

\* after the await: the signature check, the INSERT of Number(amount) and the
\* response
evmReceipt(body, elapsed) ==
    LET recovered == getAddress(verifyMessage(body.message, body.signature))
        n == ToNumber(body.amount)
        row == BetRow(body.marketId, body.side, n.v, n.below, body.address,
                      "evm", "RECEIPT_ONLY")
        created == createBet(bets, row, Now(bets, elapsed))
    IN  IF ~body.signature.wellFormed
          THEN [bets |-> bets, resp |-> Fail("evm-receipt", 500, "invalid signature encoding")]
        ELSE IF ~(ToLowerCase(recovered) = ToLowerCase(body.address))
          THEN [bets |-> bets, resp |-> Fail("evm-receipt", 400, "Invalid signature")]
        ELSE IF InsertError(markets, body.marketId, body.side, n) # ""
          THEN [bets |-> bets,
                resp |-> Fail("evm-receipt", 500,
                              InsertError(markets, body.marketId, body.side, n))]
        ELSE [bets |-> created, resp |-> Ok("evm-receipt", Len(created))]

\* the handler from its resumption; Date.now() is read at the INSERT
EvmReceiptFinish(body, elapsed) ==
    LET out == evmReceipt(body, elapsed)
    IN  /\ BagIn(body, receipts)
        /\ bets' = out.bets
        /\ resp' = out.resp
        /\ receipts' = receipts (-) SetToBag({body})
        /\ UNCHANGED <<markets, treasury, chain, booted, reqs, inits>>

\* -------------------------------------------------------- POST /confirm
\* mutant: the checks without the ownership comparison
confirmChecksNoOwner(betId, txSignature, wallet) ==
    IF ~(betId # 0 /\ txSignature # "" /\ wallet # "")
      THEN Fail("confirm", 400, "betId, txSignature, wallet are required")
    ELSE IF ~(betId \in DOMAIN bets)
      THEN Fail("confirm", 400, "Bet not found")
    ELSE NoResp

\* up to the await: the presence, existence and ownership checks
confirmChecks(betId, txSignature, wallet) ==
    IF ~(betId # 0 /\ txSignature # "" /\ wallet # "")
      THEN Fail("confirm", 400, "betId, txSignature, wallet are required")
    ELSE IF ~(betId \in DOMAIN bets)
      THEN Fail("confirm", 400, "Bet not found")
    ELSE IF ~(bets[betId].wallet = wallet)
      THEN Fail("confirm", 400, "Wallet mismatch")
    ELSE NoResp

\* the locals of a request suspended at await verifySolTransfer, the node
\* not having answered yet
Pending(betId, txSignature, wallet) ==
    [betId |-> betId, txSignature |-> txSignature, wallet |-> wallet,
     lamports |-> MathRound(bets[betId].amount_sol, bets[betId].amount_below),
     answered |-> FALSE, parsed |-> NotFound]

\* The handler up to its await: the asserts, the SELECT and the expected
\* lamports.  It answers when an assert fails and is left suspended otherwise.
ConfirmStart(betId, txSignature, wallet) ==
    LET r == confirmChecks(betId, txSignature, wallet)
    IN  /\ booted
        /\ resp' = r
        /\ reqs' = IF r = NoResp
                   THEN reqs (+) SetToBag({Pending(betId, txSignature, wallet)})
                   ELSE reqs
        /\ InFlight(reqs', inits, receipts) <= MaxConfirms
        /\ UNCHANGED <<markets, bets, treasury, chain, booted, inits, receipts>>

\* conn.getParsedTransaction resolves with what the node knows of the
\* signature at that moment
getParsedTransaction(r) == [r EXCEPT !.answered = TRUE, !.parsed = chain[r.txSignature]]

\* The RPC call of a suspended request: the node answers, the answer being
\* then on its way to the handler, or the call fails and the request ends
\* with the error handler's 500.
GetParsedTransaction(r, rpcOk) ==
    /\ BagIn(r, reqs)
    /\ ~r.answered
    /\ IF rpcOk
       THEN /\ reqs' = (reqs (-) SetToBag({r})) (+) SetToBag({getParsedTransaction(r)})
            /\ resp' = NoResp
       ELSE /\ reqs' = reqs (-) SetToBag({r})
            /\ resp' = Fail("confirm", 500, "rpc failure")
    /\ UNCHANGED <<markets, bets, treasury, chain, booted, inits, receipts>>

\* mutant: a confirmed bet refuses a second confirmation
confirmWriteOnce(r) ==
    LET v == verifySolTransfer(r.parsed, r.wallet, treasury, r.lamports)
        proof == Proof(r.betId, r.txSignature)
    IN  IF bets[r.betId].status = "CONFIRMED"
        THEN [bets |-> bets, resp |-> Fail("confirm", 400, "Already confirmed")]
        ELSE IF ~v.ok
        THEN [bets |-> markBetFailed(bets, r.betId, r.txSignature, v.reason),
              resp |-> [Fail("confirm", 400, "") EXCEPT !.reason = v.reason, !.betId = r.betId]]
        ELSE [bets |-> markBetConfirmed(bets, r.betId, r.txSignature, proof),
              resp |-> [Ok("confirm", r.betId) EXCEPT !.proof = proof]]

\* after the await: the verdict, the UPDATE and the response
confirmWrite(r) ==
    LET v == verifySolTransfer(r.parsed, r.wallet, treasury, r.lamports)
        proof == Proof(r.betId, r.txSignature)
    IN  IF ~v.ok
        THEN [bets |-> markBetFailed(bets, r.betId, r.txSignature, v.reason),
              resp |-> [Fail("confirm", 400, "") EXCEPT !.reason = v.reason, !.betId = r.betId]]
        ELSE [bets |-> markBetConfirmed(bets, r.betId, r.txSignature, proof),
              resp |-> [Ok("confirm", r.betId) EXCEPT !.proof = proof]]

\* the handler from its resumption with the node's answer
ConfirmFinish(r) ==
    /\ BagIn(r, reqs)
    /\ r.answered
    /\ LET out == confirmWrite(r)
       IN  /\ bets' = out.bets
           /\ resp' = out.resp
           /\ reqs' = reqs (-) SetToBag({r})
    /\ UNCHANGED <<markets, treasury, chain, booted, inits, receipts>>

\* the requests suspended at an await, each once
Requests == BagToSet(reqs)
Receipts == BagToSet(receipts)

\* /confirm bodies: for each stored bet the well-formed requests of its owner,
\* and a request with each field in turn missing, unknown or another's
GoodConfirm(b, sg) == [betId |-> b, txSignature |-> sg, wallet |-> bets[b].wallet]
LifecycleConfirm == {GoodConfirm(b, sg) : b \in DOMAIN bets, sg \in Landing}
VerifyConfirm == {GoodConfirm(b, sg) : b \in DOMAIN bets, sg \in Sigs}
ConfirmInputs ==
    {GoodConfirm(b, "s1") : b \in DOMAIN bets}
    \cup {[GoodConfirm(b, "s1") EXCEPT !.wallet = w] : b \in DOMAIN bets, w \in ConfirmWallets}
    \cup {[betId |-> x, txSignature |-> sg, wallet |-> "W1"] :
            x \in {0, Len(bets) + 1}, sg \in SigInputs}

\* ------------------------------------------------------------------- Next
\* The lifecycle specification: well-formed requests, overlapping at their
\* awaits.
Next ==
    \/ Boot
    \/ \E s \in Landing : TxLands(s)
    \/ Initiate(GoodInitiate)
    \/ \E b \in inits : InitiateFinish(b, TRUE)
    \/ EvmReceiptStart(GoodReceipt)
    \/ \E body \in Receipts : EvmReceiptFinish(body, 1)
    \/ \E body \in LifecycleConfirm :
            ConfirmStart(body.betId, body.txSignature, body.wallet)
    \/ \E r \in Requests : GetParsedTransaction(r, TRUE)
    \/ \E r \in Requests : ConfirmFinish(r)

Spec == Init /\ [][Next]_vars

\* The creation-input specification: the admin seed, /initiate requests over
\* their whole input set, receipts for every market id and the listing.
NextInputs ==
    \/ Boot
    \/ \E a \in BOOLEAN : AdminSeed(a)
    \/ \E body \in InitiateInputs : Initiate(body)
    \/ \E b \in inits, ok \in BOOLEAN : InitiateFinish(b, ok)
    \/ \E body \in ReceiptMarkets : EvmReceiptStart(body)
    \/ \E body \in Receipts, d \in Elapsed : EvmReceiptFinish(body, d)
    \/ \E w \in ListWallets : ListBets(w)

SpecInputs == InitInputs /\ [][NextInputs]_vars

\* The receipt-input specification: /evm-receipt requests over their whole
\* input set.
NextReceiptInputs ==
    \/ Boot
    \/ \E body \in EvmInputs : EvmReceiptStart(body)
    \/ \E body \in Receipts, d \in Elapsed : EvmReceiptFinish(body, d)

SpecReceiptInputs == InitInputs /\ [][NextReceiptInputs]_vars

\* The confirm-input specification: the lifecycle of the /initiate bets with
\* /confirm requests over their whole input set and a failing RPC node.
NextConfirmInputs ==
    \/ Boot
    \/ Initiate(GoodInitiate)
    \/ \E b \in inits : InitiateFinish(b, TRUE)
    \/ \E body \in ConfirmInputs :
            ConfirmStart(body.betId, body.txSignature, body.wallet)
    \/ \E r \in Requests, ok \in BOOLEAN : GetParsedTransaction(r, ok)
    \/ \E r \in Requests : ConfirmFinish(r)

SpecConfirmInputs == InitConfirmInputs /\ [][NextConfirmInputs]_vars

\* The verification specification: /confirm requests of the owner against every
\* shape of transaction.
NextVerify ==
    \/ \E body \in VerifyConfirm :
            ConfirmStart(body.betId, body.txSignature, body.wallet)
    \/ \E r \in Requests : GetParsedTransaction(r, TRUE)
    \/ \E r \in Requests : ConfirmFinish(r)

SpecVerify == InitVerify /\ [][NextVerify]_vars

\* ================================================================ claims
\* the verdict a request at its reply stage is about to act on
VerdictOf(r) == verifySolTransfer(r.parsed, r.wallet, treasury, r.lamports)
OutcomeStatus(r) == IF VerdictOf(r).ok THEN "CONFIRMED" ELSE "FAILED"
Terminal == {"CONFIRMED", "FAILED"}

\* C1: once a bet's status is CONFIRMED or FAILED, no later request changes
\* its status, tx or proof (stated for a server whose treasury is configured).
C1_TerminalIsFinal ==
    [][\A b \in DOMAIN bets :
          (treasury = Treasury /\ bets[b].status \in Terminal) =>
            /\ bets'[b].status = bets[b].status
            /\ bets'[b].tx = bets[b].tx
            /\ bets'[b].proof = bets[b].proof]_vars

\* C2: a bet in status RECEIPT_ONLY keeps that status under every later
\* request (stated for a server whose treasury is configured).
C2_ReceiptOnlyIsFinal ==
    [][\A b \in DOMAIN bets :
          (treasury = Treasury /\ bets[b].status = "RECEIPT_ONLY") =>
            bets'[b].status = "RECEIPT_ONLY"]_vars

\* C3: a bet whose status is not PENDING is not PENDING in any later state.
C3_NeverBackToPending ==
    [][\A b \in DOMAIN bets :
          bets[b].status # "PENDING" =>
            b \in DOMAIN bets' /\ bets'[b].status # "PENDING"]_vars

\* C3 witness: a bet that was confirmed and then written again by a later
\* confirm request (markBetFailed keeps the proof column).
C3_Witness ==
    \E b \in DOMAIN bets :
        /\ bets[b].status = "FAILED"
        /\ bets[b].proof # NoProof
        /\ resp.op = "confirm" /\ resp.betId = b

\* C4: the row an initiate request inserts is PENDING right after the
\* insert, and when a confirm request completes the bet is CONFIRMED if the
\* verdict was ok (response 200) and FAILED otherwise (response 400 with a
\* reason).
C4_StatusAfterRequest ==
    /\ [][\A body \in {GoodInitiate} :
            (Initiate(body) /\ Len(bets') > Len(bets)) =>
                bets'[Len(bets')].status = "PENDING"]_vars
    /\ [](/\ (resp.op = "confirm" /\ resp.code = 200) =>
                bets[resp.betId].status = "CONFIRMED"
          /\ (resp.op = "confirm" /\ resp.code = 400 /\ resp.reason # NoReason) =>
                bets[resp.betId].status = "FAILED")

\* C4 witness: a confirm request for a bet made by initiate has completed
\* with an ok verdict.
C4_Witness ==
    /\ resp.op = "confirm" /\ resp.code = 200
    /\ bets[resp.betId].chain = "solana"
    /\ bets[resp.betId].status = "CONFIRMED"

\* C5: nothing guards the write of a confirm request: when a request past
\* its verification writes, the bet takes that request's outcome and tx
\* whatever terminal status another request has written meanwhile.
C5_LastWriteWins ==
    [][\A r \in Requests :
          (ConfirmFinish(r) /\ bets[r.betId].status \in Terminal) =>
            /\ bets'[r.betId].status = OutcomeStatus(r)
            /\ bets'[r.betId].tx = r.txSignature]_vars

\* C5 witness: two requests for the same bet have both loaded it and have
\* their verifications back, one ok and one not, before either has written
\* (the bet is still PENDING).
C5_Witness ==
    \E r1 \in Requests, r2 \in Requests :
        /\ r1.answered /\ r2.answered
        /\ r1.betId = r2.betId
        /\ VerdictOf(r1).ok /\ ~VerdictOf(r2).ok
        /\ bets[r1.betId].status = "PENDING"

\* C6: a confirm request whose transaction matches ends with a success
\* response and the bet CONFIRMED with that tx and the proof of (bet, tx);
\* when the bet was already confirmed by the same tx the store is unchanged.
C6_ConfirmIdempotent ==
    [][\A r \in Requests :
          (ConfirmFinish(r) /\ VerdictOf(r).ok) =>
            /\ resp'.op = "confirm" /\ resp'.code = 200
            /\ bets'[r.betId].status = "CONFIRMED"
            /\ bets'[r.betId].tx = r.txSignature
            /\ bets'[r.betId].proof = Proof(r.betId, r.txSignature)
            /\ (bets[r.betId].status = "CONFIRMED" /\ bets[r.betId].tx = r.txSignature)
                  => bets' = bets]_vars

\* C6 witness: the bet is already confirmed by s1 and a second confirm
\* request with the same wallet and tx has its matching transaction back.
C6_Witness ==
    \E r \in Requests :
        /\ r.answered /\ VerdictOf(r).ok
        /\ bets[r.betId].status = "CONFIRMED"
        /\ bets[r.betId].tx = r.txSignature
        /\ r.wallet = bets[r.betId].wallet

\* C7: a confirm request with a missing field, an unknown bet id or a wallet
\* other than the bet's is answered 400, changes no bet and does not reach
\* the chain adapter (no request is left awaiting it).
C7_RejectedConfirm ==
    [][\A body \in ConfirmInputs :
          ( /\ \/ body.betId = 0 \/ body.txSignature = "" \/ body.wallet = ""
               \/ body.betId \notin DOMAIN bets
               \/ bets[body.betId].wallet # body.wallet
            /\ ConfirmStart(body.betId, body.txSignature, body.wallet) )
          => /\ resp'.op = "confirm" /\ resp'.code = 400
             /\ bets' = bets /\ reqs' = reqs /\ chain' = chain]_vars

\* C7 witness: a confirm request naming a stored bet with another wallet was
\* rejected.
C7_Witness ==
    /\ resp.op = "confirm" /\ resp.code = 400 /\ resp.error = "Wallet mismatch"
    /\ Len(bets) > 0

\* C8: an evm-receipt request whose signature recovers to an address that
\* differs, case-insensitively, from the supplied one creates no bet and is
\* answered "Invalid signature"; a bet created by evm-receipt has the supplied
\* address as wallet, chain evm and status RECEIPT_ONLY.
C8_SignatureGate ==
    [][\A body \in Receipts, d \in Elapsed :
          EvmReceiptFinish(body, d) =>
            LET recovered == getAddress(verifyMessage(body.message, body.signature))
                differs == ToLowerCase(recovered) # ToLowerCase(body.address)
                recovers == /\ body.marketId # 0 /\ Truthy(body.amount)
                            /\ body.address # "" /\ body.message # ""
                            /\ body.side \in {"YES", "NO"}
                            /\ body.signature.present /\ body.signature.wellFormed
            IN  /\ (recovers /\ differs) =>
                      /\ resp'.code = 400 /\ resp'.error = "Invalid signature"
                      /\ bets' = bets
                /\ Len(bets') > Len(bets) =>
                      /\ ~differs
                      /\ bets'[Len(bets')].wallet = body.address
                      /\ bets'[Len(bets')].chain = "evm"
                      /\ bets'[Len(bets')].status = "RECEIPT_ONLY"]_vars

\* C8 witness: after a receipt bet was recorded, a request with a signature
\* of another signer was rejected.
C8_Witness ==
    /\ resp.op = "evm-receipt" /\ resp.error = "Invalid signature"
    /\ \E b \in DOMAIN bets : bets[b].chain = "evm" /\ bets[b].status = "RECEIPT_ONLY"

\* C9: once the server has booted the market table holds exactly the
\* catalogue, and a seedIfEmpty call on a non-empty table changes nothing.
C9_SeedIdempotent ==
    /\ [](booted => Cardinality(markets) = CatalogueSize)
    /\ [][Cardinality(markets) > 0 => markets' = markets]_vars

\* C9 witness: the admin endpoint has called seedIfEmpty on the seeded table.
C9_Witness ==
    /\ booted /\ resp.op = "seed" /\ resp.code = 200
    /\ Cardinality(markets) = CatalogueSize

\* C10: a bet row is created only with a market_id that names an existing
\* market; a creation request naming no existing market creates no bet.
C10_MarketExists ==
    [][/\ Len(bets') > Len(bets) => bets'[Len(bets')].market_id \in markets
       /\ \A body \in InitiateInputs :
            (body.marketId \notin markets /\ Initiate(body)) => bets' = bets
       /\ \A body \in Receipts, d \in Elapsed :
            (body.marketId \notin markets /\ EvmReceiptFinish(body, d)) => bets' = bets]_vars

\* C10 witness: with a bet stored, an evm-receipt request naming an unknown
\* market was refused by the store.
C10_Witness ==
    /\ resp.op = "evm-receipt" /\ resp.error = "FOREIGN KEY constraint failed"
    /\ Len(bets) > 0

\* C11: every stored bet has an amount greater than zero, whether it was
\* created by initiate or by evm-receipt.
C11_AmountPositive ==
    \A b \in DOMAIN bets : bets[b].amount_sol > 0

\* C12: an initiate request with a missing or non-string market id, a side
\* other than YES/NO, an amount that parses to no positive number or to less
\* than 0.01, an unknown market or a malformed wallet is answered 400 and
\* creates no bet row; amountSol = 0.005 is answered "Minimum amount is 0.01
\* SOL".  The amount compared with the minimum is the parsed one, rounded to
\* 9 decimals.
C12_InitiateRejects ==
    [][\A body \in InitiateInputs :
          LET parsed == parseAmountSol(body.amountSol)
              violates == \/ body.marketId = 0 \/ ~IsString(body.marketId)
                          \/ body.side \notin {"YES", "NO"}
                          \/ parsed.null \/ parsed.v < MinAmount
                          \/ body.marketId \notin markets
                          \/ body.wallet \notin SolWallets \cup {NoKeyWallet}
          IN  (violates /\ Initiate(body)) =>
                /\ resp'.code = 400 /\ bets' = bets
                /\ body = [GoodInitiate EXCEPT !.amountSol = Num(MinAmount \div 2)]
                      => resp'.error = "Minimum amount is 0.01 SOL"]_vars

\* C12 witness: with a bet stored, an initiate request for 0.005 SOL was
\* rejected.
C12_Witness ==
    /\ resp.op = "initiate" /\ resp.code = 400
    /\ resp.error = "Minimum amount is 0.01 SOL"
    /\ Len(bets) > 0

\* C13: while the treasury address is unset, every initiate and every confirm
\* request that gets as far as needing it ends in a 500 response, and no bet
\* is recorded as FAILED.
C13_TreasuryUnsetIs500 ==
    treasury = "" =>
        /\ resp.op \in {"initiate", "confirm"} => resp.code = 500
        /\ \A b \in DOMAIN bets : bets[b].status # "FAILED"

\* C14: listing the bets of a wallet answers 200 with exactly the stored bets
\* whose wallet equals the given string, whatever their chain tag, each once
\* and in descending order of creation time, with the empty sequence when
\* there is none, and changes nothing in the store.
C14_ListIsProjection ==
    [][\A w \in ListWallets :
          ListBets(w) =>
            /\ resp'.op = "list" /\ resp'.code = 200
            /\ {resp'.items[i] : i \in DOMAIN resp'.items}
                  = {b \in DOMAIN bets : bets[b].wallet = w}
            /\ \A i, j \in DOMAIN resp'.items :
                  i < j => /\ resp'.items[i] # resp'.items[j]
                           /\ bets[resp'.items[i]].created_at
                                 >= bets[resp'.items[j]].created_at
            /\ (\A b \in DOMAIN bets : bets[b].wallet # w) => resp'.items = <<>>
            /\ bets' = bets /\ markets' = markets]_vars

\* C14 witness: a wallet's two bets, created at different times, were listed
\* and the later one comes first.
C14_Witness ==
    /\ resp.op = "list" /\ Len(resp.items) = 2
    /\ bets[resp.items[1]].created_at > bets[resp.items[2]].created_at

\* C15: the verdict a confirm request writes is TX_NOT_FOUND when the lookup
\* yields nothing, NO_TRANSFER_IN_TX when the transaction holds no system
\* transfer, and otherwise it is ok exactly when the first system transfer's
\* source, destination and amount equal the bet's wallet, the treasury and
\* the bet's amount in lamports; any other first transfer gives a MISMATCH
\* reason naming the observed values, and every failed verdict marks the bet
\* FAILED.
C15_VerificationDecision ==
    [][\A r \in Requests :
          ConfirmFinish(r) =>
            LET instrs == r.parsed.instructions
                bet == bets[r.betId]
                transfers == {k \in DOMAIN instrs :
                                instrs[k].program = "system" /\ instrs[k].type = "transfer"}
                first == instrs[CHOOSE k \in transfers : \A j \in transfers : k <= j]
                failed == resp'.code = 400 /\ bets'[r.betId].status = "FAILED"
            IN  IF ~r.parsed.found
                  THEN failed /\ resp'.reason = <<"TX_NOT_FOUND">>
                ELSE IF transfers = {}
                  THEN failed /\ resp'.reason = <<"NO_TRANSFER_IN_TX">>
                ELSE IF /\ first.source = bet.wallet
                        /\ first.destination = treasury
                        /\ first.lamports * Sub = bet.amount_sol
                  THEN resp'.code = 200 /\ bets'[r.betId].status = "CONFIRMED"
                ELSE /\ failed
                     /\ resp'.reason =
                          <<"MISMATCH", first.source, first.destination, first.lamports>>]_vars

\* C15 witness: a confirm request was refused and its bet marked FAILED for a
\* transfer from the bet's wallet to the treasury of one lamport more than
\* the bet's amount.
C15_Witness ==
    /\ resp.op = "confirm" /\ resp.code = 400 /\ resp.betId \in DOMAIN bets
    /\ bets[resp.betId].status = "FAILED"
    /\ resp.reason = <<"MISMATCH", bets[resp.betId].wallet, treasury,
                       (bets[resp.betId].amount_sol \div Sub) + 1>>

\* C16: every CONFIRMED bet has a tx and the proof made of its own id and
\* that tx; every PENDING or RECEIPT_ONLY bet has neither tx nor proof.
C16_ProofMatchesTx ==
    \A b \in DOMAIN bets :
        /\ bets[b].status = "CONFIRMED" =>
              (bets[b].tx # NoTx /\ bets[b].proof = Proof(b, bets[b].tx))
        /\ bets[b].status \in {"PENDING", "RECEIPT_ONLY"} =>
              (bets[b].tx = NoTx /\ bets[b].proof = NoProof)

\* C16 witness: a CONFIRMED bet next to a bet that no confirm request has
\* written.
C16_Witness ==
    /\ \E b \in DOMAIN bets : bets[b].status = "CONFIRMED"
    /\ \E b \in DOMAIN bets : bets[b].status \in {"PENDING", "RECEIPT_ONLY"}

\* C17: an initiate request that passes the input checks inserts its PENDING
\* row first.  When the treasury value then fails (unset, or no public key)
\* the request is answered with a 500 error carrying no bet id and the row
\* stays; when the chain adapter then throws (the RPC call, or the wallet is
\* no public key) the answer is again a 500 without bet id and the store,
\* with the row in it, is unchanged.
C17_RowBeforeTreasuryCheck ==
    [][/\ \A body \in InitiateInputs :
            LET parsed == parseAmountSol(body.amountSol)
                valid == /\ body.marketId \in markets
                         /\ body.side \in {"YES", "NO"}
                         /\ ~parsed.null /\ parsed.v >= MinAmount
                         /\ body.wallet \in SolWallets \cup {NoKeyWallet}
            IN  (valid /\ Initiate(body)) =>
                  /\ Len(bets') = Len(bets) + 1
                  /\ \A b \in DOMAIN bets : bets'[b] = bets[b]
                  /\ bets'[Len(bets')].status = "PENDING"
                  /\ bets'[Len(bets')].wallet = body.wallet
                  /\ bets'[Len(bets')].amount_sol = parsed.v
                  /\ treasury # Treasury => (resp'.code = 500 /\ resp'.betId = 0)
       /\ \A b \in inits, ok \in BOOLEAN :
            ((~ok \/ bets[b].wallet = NoKeyWallet) /\ InitiateFinish(b, ok)) =>
                  /\ resp'.code = 500 /\ resp'.betId = 0
                  /\ b \in DOMAIN bets' /\ bets' = bets]_vars

\* C17 witness: the treasury value is no public key, initiate answered with
\* the constructor's error and the row is stored.
C17_Witness ==
    /\ resp.op = "initiate" /\ resp.code = 500
    /\ resp.error = "Invalid public key input" /\ treasury # Treasury
    /\ Len(bets) > 0 /\ bets[Len(bets)].status = "PENDING"

\* C18: no step removes a bet row or changes a bet's id, market_id, side,
\* amount, wallet, chain or creation time; the write of a confirm request
\* leaves every bet but the one it names, the number of bets and the markets
\* unchanged.
C18_Frame ==
    [][/\ \A b \in DOMAIN bets :
            /\ b \in DOMAIN bets'
            /\ bets'[b].market_id = bets[b].market_id
            /\ bets'[b].side = bets[b].side
            /\ bets'[b].amount_sol = bets[b].amount_sol
            /\ bets'[b].amount_below = bets[b].amount_below
            /\ bets'[b].wallet = bets[b].wallet
            /\ bets'[b].chain = bets[b].chain
            /\ bets'[b].created_at = bets[b].created_at
       /\ \A r \in Requests :
            ConfirmFinish(r) =>
                /\ Len(bets') = Len(bets)
                /\ \A b \in DOMAIN bets : b # r.betId => bets'[b] = bets[b]
                /\ markets' = markets]_vars

\* C18 witness: of two stored bets one is CONFIRMED, and a confirm request
\* naming the other has just marked that one FAILED.
C18_Witness ==
    /\ resp.op = "confirm" /\ resp.code = 400 /\ Len(bets) = 2
    /\ bets[resp.betId].status = "FAILED"
    /\ \E b \in DOMAIN bets : b # resp.betId /\ bets[b].status = "CONFIRMED"

\* C19: no two distinct CONFIRMED bets store the same tx.
C19_TxBacksOneBet ==
    \A a, b \in DOMAIN bets :
        (a # b /\ bets[a].status = "CONFIRMED" /\ bets[b].status = "CONFIRMED")
            => bets[a].tx # bets[b].tx

====
